---- MODULE Spec2Model ----
(***************************************************************************)
(* A model of the markdown-to-notion conversion service:                   *)
(*   src/src/services/htmlToNotionService.ts  (HtmlToNotionService)        *)
(*   src/src/routes/markdown.ts               (the /sync route)            *)
(*                                                                         *)
(* Text is a sequence of one-character strings, so that the character      *)
(* level functions (regular expressions, trim, toLowerCase, the inline     *)
(* tokenizer) are computed as the code computes them.  Positions are       *)
(* 1-based here and 0-based in the source.  Non-ASCII message literals of  *)
(* the source are written as ASCII tokens.                                 *)
(***************************************************************************)
EXTENDS Integers, Sequences, FiniteSets, TLC

VARIABLES
    pc,                  \* position of the invocation (or of a pure-function run)
    req,                 \* the request: entry, content, title, notion_api_key, notion_page_id
    elements,            \* parseHtmlElements(markdownToHtml(content)), the scanned elements
    elemIdx,             \* htmlToNotionBlocks: index of the element being built
    blocks,              \* htmlToNotionBlocks: the built blocks
    pageTitle,           \* markdownToNotion: pageTitle
    newPage,             \* markdownToNotion: newPage.id ("" before create-page returned)
    allBlocks,           \* markdownToNotion: allBlocks
    i,                   \* markdownToNotion: batch loop index (0-based, as in the source)
    totalBlocksCreated,  \* markdownToNotion: totalBlocksCreated
    calls,               \* log of external events (probe, create, append, pause), in order
    submitted,           \* the chunks handed to blocks.children.append, in order
    remote,              \* the remote workspace: pages that exist and their children
    outcome,             \* what the caller gets: nothing yet, a result, or an error
    fnIn,                \* input of a pure function under check
    fnOut                \* its output

vars == <<pc, req, elements, elemIdx, blocks, pageTitle, newPage, allBlocks, i,
          totalBlocksCreated, calls, submitted, remote, outcome, fnIn, fnOut>>

orchVars == <<req, elements, elemIdx, blocks, pageTitle, newPage, allBlocks, i,
              totalBlocksCreated, calls, submitted, remote, outcome>>

----------------------------------------------------------------------------
(* Bounds of the model *)

MaxElems == 3            \* most scanned elements drawn ahead of the filler paragraphs
MaxPad == 250            \* most filler paragraphs of a scanned document
MaxContentLen == 5      \* longest Markdown content drawn for title extraction
MaxLangPad == 1         \* most blanks put before and after a language name
MaxSegs == 3            \* most segments (plain stretches and spans) of an inline fragment
MaxToks == 3            \* most pieces (text, tags, a lone <) of a raw inline fragment
MaxLines == 2           \* most lines of an HTML text handed to the scanner
MaxBodyLen == 4         \* longest body of a code block, in characters

----------------------------------------------------------------------------
(* Sequences and characters *)

None == <<"[none]">>

Max(S) == CHOOSE m \in S : \A n \in S : n <= m

Min(S) == CHOOSE m \in S : \A n \in S : m <= n

\* All sequences over S of length at most n.
SeqsUpTo(S, n) == UNION {[1..k -> S] : k \in 0..n}

\* JavaScript \s, restricted to the characters the model draws.
IsWs(c) == c \in {" ", "\n", "\t"}

\* String.prototype.trim
RECURSIVE TrimLeft(_)
TrimLeft(s) == IF s # <<>> /\ IsWs(Head(s)) THEN TrimLeft(Tail(s)) ELSE s

RECURSIVE TrimRight(_)
TrimRight(s) ==
    IF s # <<>> /\ IsWs(s[Len(s)]) THEN TrimRight(SubSeq(s, 1, Len(s) - 1)) ELSE s

Trim(s) == TrimRight(TrimLeft(s))

\* Number of consecutive characters from position p on that satisfy \s.
RECURSIVE WsRun(_, _)
WsRun(s, p) == IF p <= Len(s) /\ IsWs(s[p]) THEN 1 + WsRun(s, p + 1) ELSE 0

\* Number of consecutive characters from position p on that "." matches
\* (anything but a line terminator).
RECURSIVE DotRun(_, _)
DotRun(s, p) == IF p <= Len(s) /\ s[p] # "\n" THEN 1 + DotRun(s, p + 1) ELSE 0

\* Number of consecutive "#" from position p on.
RECURSIVE HashRun(_, _)
HashRun(s, p) == IF p <= Len(s) /\ s[p] = "#" THEN 1 + HashRun(s, p + 1) ELSE 0

----------------------------------------------------------------------------
(* extractTitleFromContent, src/src/services/htmlToNotionService.ts:753-773 *)

\* The fixed placeholder title (a non-ASCII literal in the source).
Placeholder == <<"[untitled-document]">>

NoMatch == <<"[no-match]">>

\* ^ under the m flag: position p starts the input or follows a line break.
AtLineStart(s, p) == p = 1 \/ s[p - 1] = "\n"

\* One attempt of /^#{h}\s+(.+)$/m at position p; the captured group or NoMatch.
\* \s+ is greedy and may run over line breaks; it gives characters back until
\* (.+) finds at least one character, and (.+) then runs to the end of its line,
\* where $ holds.
HeadingMatchAt(s, p, h) ==
    IF ~AtLineStart(s, p) \/ HashRun(s, p) < h THEN NoMatch
    ELSE LET q == p + h
             w == WsRun(s, q)
             ks == {k \in 1..w : DotRun(s, q + k) >= 1}
         IN  IF ks = {} THEN NoMatch
             ELSE LET k == Max(ks)
                  IN  SubSeq(s, q + k, q + k + DotRun(s, q + k) - 1)

\* content.match(/^#{h}\s+(.+)$/m): the leftmost position that matches.
HeadingMatch(s, h) ==
    LET ps == {p \in 1..Len(s) : HeadingMatchAt(s, p, h) # NoMatch}
    IN  IF ps = {} THEN NoMatch ELSE HeadingMatchAt(s, Min(ps), h)

\* content.split('\n')[0]
FirstLine(s) == SubSeq(s, 1, DotRun(s, 1))

\* firstLine.replace(/^#+\s*/, '')
StripMarkers(l) ==
    LET h == HashRun(l, 1)
    IN  IF h = 0 THEN l ELSE SubSeq(l, h + 1 + WsRun(l, h + 1), Len(l))

extractTitleFromContent_FirstNonEmpty(content) ==
    LET h1Match == HeadingMatch(content, 1)
        h2Match == HeadingMatch(content, 2)
        firstLine == FirstLine(TrimLeft(content))
    IN  IF h1Match # NoMatch THEN Trim(h1Match)
        ELSE IF h2Match # NoMatch THEN Trim(h2Match)
        ELSE IF firstLine # <<>> THEN Trim(StripMarkers(firstLine))
        ELSE Placeholder

extractTitleFromContent(content) ==
    LET h1Match == HeadingMatch(content, 1)
        h2Match == HeadingMatch(content, 2)
        firstLine == FirstLine(content)
    IN  IF h1Match # NoMatch THEN Trim(h1Match)
        ELSE IF h2Match # NoMatch THEN Trim(h2Match)
        ELSE IF firstLine # <<>> THEN Trim(StripMarkers(firstLine))
        ELSE Placeholder

\* title || this.extractTitleFromContent(content), line 74; an absent title and
\* the empty string are both falsy and are both written <<>>.
ResolveTitle(title, content) ==
    IF title # <<>> THEN title ELSE extractTitleFromContent(content)

----------------------------------------------------------------------------
(* Title resolution as a pure function: TitleSpec draws (title, content) *)

\* No invocation of the service is under way (the pure-function specifications).
NoInvocation ==
    /\ req = None /\ elements = <<>> /\ elemIdx = 0 /\ blocks = <<>>
    /\ pageTitle = None /\ newPage = "" /\ allBlocks = <<>> /\ i = 0
    /\ totalBlocksCreated = 0 /\ calls = <<>> /\ submitted = <<>>
    /\ remote = None /\ outcome = [kind |-> "none"]

TitleChars == {"#", " ", "\n", "a"}

TitleChoices == {<<>>, <<"T">>}

TitleInit ==
    /\ pc = "title_ready"
    /\ fnIn \in [title : TitleChoices, content : SeqsUpTo(TitleChars, MaxContentLen)]
    /\ fnOut = None
    /\ NoInvocation

ApplyResolveTitle ==
    /\ pc = "title_ready"
    /\ fnOut' = ResolveTitle(fnIn.title, fnIn.content)
    /\ pc' = "title_done"
    /\ UNCHANGED <<fnIn, orchVars>>

TitleNext == ApplyResolveTitle

TitleSpec == TitleInit /\ [][TitleNext]_vars

----------------------------------------------------------------------------
(* Title resolution stated line by line *)

\* content.split('\n'): the source lines.
RECURSIVE Lines(_)
Lines(s) ==
    LET n == DotRun(s, 1)
    IN  IF n = Len(s) THEN <<s>>
        ELSE <<SubSeq(s, 1, n)>> \o Lines(SubSeq(s, n + 2, Len(s)))

\* A line that is one or two '#' followed by nothing but whitespace.
MarkerOnly(l) ==
    /\ HashRun(l, 1) \in {1, 2}
    /\ \A j \in (HashRun(l, 1) + 1)..Len(l) : IsWs(l[j])

\* Every heading marker carries its text on its own line.
MarkersCarryText(s) == \A k \in 1..Len(Lines(s)) : ~MarkerOnly(Lines(s)[k])

\* An ATX heading line of level h: h '#', whitespace, then text.
IsHeadingLine(l, h) ==
    /\ HashRun(l, 1) = h
    /\ Len(l) > h + 1
    /\ IsWs(l[h + 1])
    /\ \E j \in (h + 2)..Len(l) : ~IsWs(l[j])

HeadingLines(s, h) == {k \in 1..Len(Lines(s)) : IsHeadingLine(Lines(s)[k], h)}

HeadingText(s, h) ==
    LET l == Lines(s)[Min(HeadingLines(s, h))] IN Trim(SubSeq(l, h + 1, Len(l)))

WithoutMarkers(l) == Trim(SubSeq(l, HashRun(l, 1) + 1, Len(l)))

NonEmptyLines(s) == {k \in 1..Len(Lines(s)) : Lines(s)[k] # <<>>}

\* The title as the amended claim states it: the third rule looks at the
\* first line only.
TitleByFirstLine(title, s) ==
    IF title # <<>> THEN title
    ELSE IF HeadingLines(s, 1) # {} THEN HeadingText(s, 1)
    ELSE IF HeadingLines(s, 2) # {} THEN HeadingText(s, 2)
    ELSE IF Lines(s)[1] # <<>> THEN WithoutMarkers(Lines(s)[1])
    ELSE Placeholder

\* The title as the original claim states it: the third rule looks at the
\* first non-empty line, wherever it stands.
TitleByFirstNonEmptyLine(title, s) ==
    IF title # <<>> THEN title
    ELSE IF HeadingLines(s, 1) # {} THEN HeadingText(s, 1)
    ELSE IF HeadingLines(s, 2) # {} THEN HeadingText(s, 2)
    ELSE IF NonEmptyLines(s) # {} THEN WithoutMarkers(Lines(s)[Min(NonEmptyLines(s))])
    ELSE Placeholder

TitleDone == pc = "title_done" /\ MarkersCarryText(fnIn.content)

----------------------------------------------------------------------------
(* normalizeLanguage, src/src/services/htmlToNotionService.ts:405-449 *)

LowerLetters ==
    <<"a", "b", "c", "d", "e", "f", "g", "h", "i", "j", "k", "l", "m",
      "n", "o", "p", "q", "r", "s", "t", "u", "v", "w", "x", "y", "z">>

UpperLetters ==
    <<"A", "B", "C", "D", "E", "F", "G", "H", "I", "J", "K", "L", "M",
      "N", "O", "P", "Q", "R", "S", "T", "U", "V", "W", "X", "Y", "Z">>

LetterIndex(letters, c) == {k \in 1..Len(letters) : letters[k] = c}

\* String.prototype.toLowerCase, one character
ToLowerChar(c) ==
    IF LetterIndex(UpperLetters, c) # {}
    THEN LowerLetters[CHOOSE k \in LetterIndex(UpperLetters, c) : TRUE]
    ELSE c

ToUpperChar(c) ==
    IF LetterIndex(LowerLetters, c) # {}
    THEN UpperLetters[CHOOSE k \in LetterIndex(LowerLetters, c) : TRUE]
    ELSE c

ToLowerCase(s) == [k \in 1..Len(s) |-> ToLowerChar(s[k])]

PlainText == <<"p", "l", "a", "i", "n", " ", "t", "e", "x", "t">>

\* The own properties of the languageMap object literal, as <<key, value>>.
languageMap ==
    {
      <<<<"j", "s">>,
       <<"j", "a", "v", "a", "s", "c", "r", "i", "p", "t">>>>,
      <<<<"t", "s">>,
       <<"t", "y", "p", "e", "s", "c", "r", "i", "p", "t">>>>,
      <<<<"p", "y">>,
       <<"p", "y", "t", "h", "o", "n">>>>,
      <<<<"r", "b">>,
       <<"r", "u", "b", "y">>>>,
      <<<<"s", "h">>,
       <<"s", "h", "e", "l", "l">>>>,
      <<<<"b", "a", "s", "h">>,
       <<"s", "h", "e", "l", "l">>>>,
      <<<<"z", "s", "h">>,
       <<"s", "h", "e", "l", "l">>>>,
      <<<<"y", "m", "l">>,
       <<"y", "a", "m", "l">>>>,
      <<<<"m", "d">>,
       <<"m", "a", "r", "k", "d", "o", "w", "n">>>>,
      <<<<"j", "s", "x">>,
       <<"j", "a", "v", "a", "s", "c", "r", "i", "p", "t">>>>,
      <<<<"t", "s", "x">>,
       <<"t", "y", "p", "e", "s", "c", "r", "i", "p", "t">>>> }

\* Property names every object literal inherits from Object.prototype; the
\* lookup languageMap[language] of line 429 finds them too.
ObjectPrototypeProps ==
    { <<"c", "o", "n", "s", "t", "r", "u", "c", "t", "o", "r">>,
      <<"_", "_", "p", "r", "o", "t", "o", "_", "_">>,
      <<"t", "o", "S", "t", "r", "i", "n", "g">>,
      <<"v", "a", "l", "u", "e", "O", "f">>,
      <<"h", "a", "s", "O", "w", "n", "P", "r", "o", "p", "e", "r", "t", "y">> }

Undefined == <<"[undefined]">>

\* The value of an inherited property: a function or an object, not a string.
InheritedValue(key) == <<"[Object.prototype]">> \o key

\* languageMap[language]
languageMapLookup(key) ==
    IF \E e \in languageMap : e[1] = key
    THEN (CHOOSE e \in languageMap : e[1] = key)[2]
    ELSE IF key \in ObjectPrototypeProps THEN InheritedValue(key)
    ELSE Undefined

supportedLanguages ==
    { <<"j", "a", "v", "a", "s", "c", "r", "i", "p", "t">>,
      <<"t", "y", "p", "e", "s", "c", "r", "i", "p", "t">>,
      <<"p", "y", "t", "h", "o", "n">>, <<"j", "a", "v", "a">>, <<"c">>,
      <<"c", "+", "+">>, <<"c", "#">>, <<"r", "u", "b", "y">>, <<"g", "o">>,
      <<"r", "u", "s", "t">>, <<"p", "h", "p">>, <<"s", "w", "i", "f", "t">>,
      <<"k", "o", "t", "l", "i", "n">>, <<"s", "c", "a", "l", "a">>,
      <<"h", "t", "m", "l">>, <<"c", "s", "s">>, <<"s", "c", "s", "s">>,
      <<"s", "a", "s", "s">>, <<"l", "e", "s", "s">>, <<"j", "s", "o", "n">>,
      <<"x", "m", "l">>, <<"y", "a", "m", "l">>,
      <<"m", "a", "r", "k", "d", "o", "w", "n">>, <<"s", "q", "l">>,
      <<"s", "h", "e", "l", "l">>, <<"b", "a", "s", "h">>,
      <<"p", "o", "w", "e", "r", "s", "h", "e", "l", "l">>,
      <<"d", "o", "c", "k", "e", "r", "f", "i", "l", "e">>,
      <<"d", "o", "c", "k", "e", "r">>,
      <<"m", "a", "k", "e", "f", "i", "l", "e">>,
      <<"p", "l", "a", "i", "n", " ", "t", "e", "x", "t">> }

normalizeLanguage(language) ==
    IF language = <<>> \/ language = PlainText THEN PlainText
    ELSE LET lang == Trim(ToLowerCase(language))
         IN  IF languageMapLookup(lang) # Undefined THEN languageMapLookup(lang)
             ELSE IF lang \in supportedLanguages THEN lang
             ELSE PlainText

----------------------------------------------------------------------------
(* normalizeLanguage as a pure function: LangSpec draws the language string *)

Keys(m) == {e[1] : e \in m}

OtherWords == {<<>>, <<"b", "r", "a", "i", "n", "f", "u", "c", "k">>, <<"x">>}

LangWords == Keys(languageMap) \cup supportedLanguages \cup ObjectPrototypeProps \cup OtherWords

AllCaps(s) == [k \in 1..Len(s) |-> ToUpperChar(s[k])]

InitialCap(s) == [k \in 1..Len(s) |-> IF k = 1 THEN ToUpperChar(s[k]) ELSE s[k]]

Blanks(n) == [k \in 1..n |-> " "]

LangInputs ==
    {Blanks(a) \o v \o Blanks(b) :
        v \in UNION {{word, AllCaps(word), InitialCap(word)} : word \in LangWords},
        a \in 0..MaxLangPad, b \in 0..MaxLangPad}

LangInit ==
    /\ pc = "lang_ready"
    /\ fnIn \in LangInputs
    /\ fnOut = None
    /\ NoInvocation

ApplyNormalizeLanguage ==
    /\ pc = "lang_ready"
    /\ fnOut' = normalizeLanguage(fnIn)
    /\ pc' = "lang_done"
    /\ UNCHANGED <<fnIn, orchVars>>

LangNext == ApplyNormalizeLanguage

LangSpec == LangInit /\ [][LangNext]_vars

\* The result the claim states for an input.
LanguageAsClaimed(language) ==
    LET lang == Trim(ToLowerCase(language))
    IN  IF lang \in Keys(languageMap)
        THEN (CHOOSE e \in languageMap : e[1] = lang)[2]
        ELSE IF lang \in supportedLanguages THEN lang
        ELSE PlainText

\* C9: for every input string normalizeLanguage returns a member of the
\* supported-language set (which holds 'plain text'): an alias gives its
\* canonical name after lower-casing and trimming, a supported name gives
\* itself in lower case, the empty string and every other string give
\* 'plain text'.
C9_NormalizedLanguage ==
    pc = "lang_done" =>
        /\ fnOut \in supportedLanguages
        /\ fnOut = LanguageAsClaimed(fnIn)

\* The same statement for the inputs that name no inherited property of the
\* languageMap object: it holds there, so the inherited properties are the
\* only inputs on which the claim fails.
C9_ExceptInheritedProps ==
    (pc = "lang_done" /\ Trim(ToLowerCase(fnIn)) \notin ObjectPrototypeProps) =>
        /\ fnOut \in supportedLanguages
        /\ fnOut = LanguageAsClaimed(fnIn)

\* The spec's examples: JS, Rust, brainfuck and the empty string.
C9_Examples ==
    /\ normalizeLanguage(<<"J", "S">>) = <<"j", "a", "v", "a", "s", "c", "r", "i", "p", "t">>
    /\ normalizeLanguage(<<"R", "u", "s", "t">>) = <<"r", "u", "s", "t">>
    /\ normalizeLanguage(<<"b", "r", "a", "i", "n", "f", "u", "c", "k">>) = PlainText
    /\ normalizeLanguage(<<>>) = PlainText

----------------------------------------------------------------------------
(* stripHtmlTags, src/src/services/htmlToNotionService.ts:545-559 *)

\* String.prototype.indexOf(needle, from): the first position at or after
\* `from` where needle stands, 0 when there is none (-1 in the source).
IndexOf(s, needle, from) ==
    LET ks == {k \in from..(Len(s) - Len(needle) + 1) :
                  SubSeq(s, k, k + Len(needle) - 1) = needle}
    IN  IF ks = {} THEN 0 ELSE Min(ks)

StartsWith(s, prefix) ==
    Len(s) >= Len(prefix) /\ SubSeq(s, 1, Len(prefix)) = prefix

\* text.replace(/needle/g, repl) for a literal needle
RECURSIVE ReplaceAll(_, _, _)
ReplaceAll(s, needle, repl) ==
    LET k == IndexOf(s, needle, 1)
    IN  IF k = 0 THEN s
        ELSE SubSeq(s, 1, k - 1) \o repl
                \o ReplaceAll(SubSeq(s, k + Len(needle), Len(s)), needle, repl)

\* text.replace(/<[^>]*>/g, ''): each '<' up to the next '>' is removed; a
\* '<' that no '>' follows stays.
RECURSIVE RemoveTags(_)
RemoveTags(s) ==
    LET open == IndexOf(s, <<"<">>, 1)
        close == IF open = 0 THEN 0 ELSE IndexOf(s, <<">">>, open)
    IN  IF open = 0 \/ close = 0 THEN s
        ELSE SubSeq(s, 1, open - 1) \o RemoveTags(SubSeq(s, close + 1, Len(s)))

stripHtmlTags(html) ==
    LET t0 == RemoveTags(html)
        t1 == ReplaceAll(t0, <<"&", "l", "t", ";">>, <<"<">>)
        t2 == ReplaceAll(t1, <<"&", "g", "t", ";">>, <<">">>)
        t3 == ReplaceAll(t2, <<"&", "a", "m", "p", ";">>, <<"&">>)
        t4 == ReplaceAll(t3, <<"&", "q", "u", "o", "t", ";">>, <<"\"">>)
        t5 == ReplaceAll(t4, <<"&", "#", "3", "9", ";">>, <<"'">>)
    IN  Trim(t5)

----------------------------------------------------------------------------
(* htmlToRichText, src/src/services/htmlToNotionService.ts:454-540 *)

\* One rich_text item: its text content and its one annotation ("none" for
\* an item without annotations).
Run(content, annotation) == [content |-> content, annotation |-> annotation]

OpenTag(name) == <<"<">> \o name \o <<">">>

CloseTag(name) == <<"<", "/">> \o name \o <<">">>

STRONG == <<"s", "t", "r", "o", "n", "g">>

EM == <<"e", "m">>

CODE == <<"c", "o", "d", "e">>

DEL == <<"d", "e", "l">>

S == <<"s">>

\* The closing tag the tokenizer looks for after an opening <del> or <s>, and
\* how far it skips: lines 514 and 522.  A </del> anywhere ahead is taken, for
\* an <s> span too.
StrikeCloseTag(html, tag, from) ==
    IF IndexOf(html, CloseTag(DEL), from) # 0
    THEN [at |-> IndexOf(html, CloseTag(DEL), from), skip |-> 6]
    ELSE [at |-> IndexOf(html, CloseTag(S), from), skip |-> 4]

\* The state of the while loop of lines 461-529: the position i (1-based), the
\* pending plain text, the items pushed so far, and whether the loop was left
\* by the break of line 474.
TokInit == [i |-> 1, currentText |-> <<>>, richText |-> <<>>, broke |-> FALSE]

\* A span step that leaves the loop state as it was.
SpanStep_Stay(html, st, from, closeAt, skip, annotation) == st

\* One styled span, lines 480-523: with its closing tag found, one item with
\* the stripped inner text is pushed and the position moves past the closing
\* tag; without it, nothing is pushed and the position stays after the tag.
SpanStep(html, st, from, closeAt, skip, annotation) ==
    IF closeAt # 0
    THEN [st EXCEPT !.i = closeAt + skip,
                    !.richText = Append(st.richText,
                        Run(stripHtmlTags(SubSeq(html, from, closeAt - 1)), annotation))]
    ELSE [st EXCEPT !.i = from]

\* The styled span an opening tag starts, lines 480-523: where its closing tag
\* stands (0: nowhere), how far to skip, and the annotation; "none" for a tag
\* that is none of the five.
SpanOf(html, tag, from) ==
    IF StartsWith(tag, OpenTag(STRONG))
    THEN [at |-> IndexOf(html, CloseTag(STRONG), from), skip |-> 9, annotation |-> "bold"]
    ELSE IF StartsWith(tag, OpenTag(EM))
    THEN [at |-> IndexOf(html, CloseTag(EM), from), skip |-> 5, annotation |-> "italic"]
    ELSE IF StartsWith(tag, OpenTag(CODE))
    THEN [at |-> IndexOf(html, CloseTag(CODE), from), skip |-> 7, annotation |-> "code"]
    ELSE IF StartsWith(tag, OpenTag(DEL)) \/ StartsWith(tag, OpenTag(S))
    THEN [at |-> StrikeCloseTag(html, tag, from).at,
          skip |-> StrikeCloseTag(html, tag, from).skip, annotation |-> "strikethrough"]
    ELSE [at |-> 0, skip |-> 0, annotation |-> "none"]

\* One iteration of the loop.
TokStep(html, st) ==
    IF html[st.i] = "<"
    THEN LET flushed ==
                 [st EXCEPT !.currentText = <<>>,
                            !.richText = IF st.currentText # <<>>
                                         THEN Append(st.richText, Run(st.currentText, "none"))
                                         ELSE st.richText]
             tagEnd == IndexOf(html, <<">">>, st.i)
         IN  IF tagEnd = 0 THEN [flushed EXCEPT !.broke = TRUE]
             ELSE \* a tag that starts no span is skipped, as is an opening tag
                  \* without its closing tag
                  LET span == SpanOf(html, SubSeq(html, st.i, tagEnd), tagEnd + 1)
                  IN  SpanStep(html, flushed, tagEnd + 1, span.at, span.skip, span.annotation)
    ELSE [st EXCEPT !.currentText = Append(st.currentText, html[st.i]), !.i = st.i + 1]

\* while (i < html.length) { ... }
RECURSIVE TokLoop(_, _)
TokLoop(html, st) ==
    IF st.broke \/ st.i > Len(html) THEN st ELSE TokLoop(html, TokStep(html, st))

\* htmlToRichText without the fallback of line 539.
htmlToRichText_NoFallback(html) ==
    LET st == TokLoop(html, TokInit)
    IN  IF st.currentText # <<>>
        THEN Append(st.richText, Run(st.currentText, "none"))
        ELSE st.richText

htmlToRichText(html) ==
    LET st == TokLoop(html, TokInit)
        richText == IF st.currentText # <<>>
                    THEN Append(st.richText, Run(st.currentText, "none"))
                    ELSE st.richText
    IN  IF Len(richText) > 0 THEN richText ELSE <<Run(html, "none")>>

----------------------------------------------------------------------------
(* htmlToRichText as a pure function: RichSpec draws an inline fragment as *)
(* a sequence of segments, each a stretch of plain text or one span        *)

SpanTags == {STRONG, EM, CODE, DEL, S}

PlainPieces == {<<"p">>, <<" ", "q", " ">>}

InnerPieces == {<<>>, <<"b">>, <<"c", "d">>}

Segments ==
    [kind : {"plain"}, tag : {<<>>}, text : PlainPieces]
        \cup [kind : {"span"}, tag : SpanTags, text : InnerPieces]

\* Two plain segments in a row would be one stretch of plain text.
Fragments ==
    {f \in SeqsUpTo(Segments, MaxSegs) :
        \A k \in 1..(Len(f) - 1) : ~(f[k].kind = "plain" /\ f[k + 1].kind = "plain")}

RenderSegment(seg) ==
    IF seg.kind = "plain" THEN seg.text
    ELSE OpenTag(seg.tag) \o seg.text \o CloseTag(seg.tag)

RECURSIVE Render(_)
Render(f) == IF f = <<>> THEN <<>> ELSE RenderSegment(Head(f)) \o Render(Tail(f))

RichInit ==
    /\ pc = "rich_ready"
    /\ fnIn \in Fragments
    /\ fnOut = None
    /\ NoInvocation

ApplyHtmlToRichText ==
    /\ pc = "rich_ready"
    /\ fnOut' = htmlToRichText(Render(fnIn))
    /\ pc' = "rich_done"
    /\ UNCHANGED <<fnIn, orchVars>>

RichNext == ApplyHtmlToRichText

RichSpec == RichInit /\ [][RichNext]_vars

StyleOf(tag) ==
    IF tag = STRONG THEN "bold"
    ELSE IF tag = EM THEN "italic"
    ELSE IF tag = CODE THEN "code"
    ELSE "strikethrough"

\* The runs the claim states for a fragment: one per segment, in order.
RunsAsClaimed(f) ==
    [k \in 1..Len(f) |->
        IF f[k].kind = "plain" THEN Run(f[k].text, "none")
        ELSE Run(f[k].text, StyleOf(f[k].tag))]

\* C10: for a fragment of plain text and non-nested <strong>, <em>, <code>,
\* <del> and <s> spans, htmlToRichText returns the runs in source order: one
\* unstyled run per non-empty stretch of plain text, its text unchanged, and
\* one run per span, with the text between the span's opening tag and its own
\* closing tag and with exactly the style flag of that tag.
C10_RunsInSourceOrder ==
    (pc = "rich_done" /\ fnIn # <<>>) => fnOut = RunsAsClaimed(fnIn)

\* The same statement for the fragments in which no <s> span comes before a
\* <del> span: it holds there.
C10_ExceptSBeforeDel ==
    (/\ pc = "rich_done" /\ fnIn # <<>>
     /\ ~\E j, k \in 1..Len(fnIn) : j < k /\ fnIn[j].tag = S /\ fnIn[k].tag = DEL)
        => fnOut = RunsAsClaimed(fnIn)

\* The spec's example: "plain <strong>bold</strong> text" gives three runs.
C10_Example ==
    htmlToRichText(<<"p", " ">> \o OpenTag(STRONG) \o <<"b">> \o CloseTag(STRONG) \o <<" ", "t">>)
        = <<Run(<<"p", " ">>, "none"), Run(<<"b">>, "bold"), Run(<<" ", "t">>, "none")>>

----------------------------------------------------------------------------
(* Scanned elements and remote blocks *)

\* A scanned element; an absent attribute is the empty sequence (falsy, like
\* undefined and '' in the source).
Element(tag, content, src, alt) ==
    [tag |-> tag, content |-> content,
     attributes |-> [src |-> src, alt |-> alt, language |-> <<>>, cells |-> <<>>]]

\* A remote block; fields a block type does not use are empty.
Block(type, rich_text, url, language) ==
    [type |-> type, rich_text |-> rich_text, url |-> url, language |-> language]

\* No block (null in the source).
Null == Block("[null]", <<>>, <<>>, <<>>)

\* element.content.replace(/\\n/g, '\n'), line 620
UnescapeNewlines(content) == ReplaceAll(content, <<"\\", "n">>, <<"\n">>)

\* cells.join(' | ')
RECURSIVE Join(_)
Join(cells) ==
    IF cells = <<>> THEN <<>>
    ELSE IF Len(cells) = 1 THEN cells[1]
    ELSE cells[1] \o <<" ", "|", " ">> \o Join(Tail(cells))

\* The text of the callout of an unreachable image, line 712.
CalloutText(alt, src) ==
    <<"[image-cannot-be-shown]">> \o (IF alt # <<>> THEN alt ELSE <<"[image]">>)
        \o <<"\n", "[link]">> \o src \o <<"\n", "[reason-unreachable]">>

\* The img case of elementToNotionBlock after verifyImageUrl returned, lines
\* 683-722: an image block, or the callout of an unreachable image.
ImageBlock(element, isAccessible) ==
    IF isAccessible
    THEN Block("image",
               IF element.attributes.alt # <<>>
               THEN <<Run(element.attributes.alt, "none")>> ELSE <<>>,
               element.attributes.src, <<>>)
    ELSE Block("callout",
               <<Run(CalloutText(element.attributes.alt, element.attributes.src), "none")>>,
               <<>>, <<>>)

\* The cases of the switch that run the content through htmlToRichText, with
\* the block type of each.
RichTextTags == {"h1", "h2", "h3", "p", "blockquote", "li"}

RichTextType(tag) ==
    CASE tag = "h1" -> "heading_1"
      [] tag = "h2" -> "heading_2"
      [] tag = "h3" -> "heading_3"
      [] tag = "p" -> "paragraph"
      [] tag = "blockquote" -> "quote"
      [] tag = "li" -> "bulleted_list_item"

\* elementToNotionBlock, lines 579-729; isAccessible is what verifyImageUrl
\* returned for an img element with a src (not read otherwise).
elementToNotionBlock(element, isAccessible) ==
    CASE element.tag \in RichTextTags ->
            IF element.tag = "p" /\ Trim(element.content) = <<>> THEN Null
            ELSE Block(RichTextType(element.tag), htmlToRichText(element.content), <<>>, <<>>)
      [] element.tag = "pre" ->
            Block("code", <<Run(UnescapeNewlines(element.content), "none")>>, <<>>,
                  IF element.attributes.language # <<>>
                  THEN element.attributes.language ELSE PlainText)
      [] element.tag = "table-row" ->
            IF element.attributes.cells # <<>>
            THEN Block("paragraph",
                       <<Run(<<"|", " ">> \o Join(element.attributes.cells) \o <<" ", "|">>,
                             "code")>>,
                       <<>>, <<>>)
            ELSE Null
      [] element.tag = "img" ->
            IF element.attributes.src # <<>> THEN ImageBlock(element, isAccessible) ELSE Null
      [] OTHER -> Null

\* A URL that new URL(url) accepts (line 740); for any other src the probe
\* raises before a request is sent.
GoodUrl == <<"http://img/1">>

BadUrl == <<"not a url">>

IsValidUrl(url) == url = GoodUrl

\* The element needs a network round trip: an img with a src that parses.
NeedsFetch(element) ==
    /\ element.tag = "img"
    /\ element.attributes.src # <<>>
    /\ IsValidUrl(element.attributes.src)

\* blocks.push(block) unless the block is null, lines 257-259
PushBlock(blks, block) == IF block # Null THEN Append(blks, block) ELSE blks

\* The stretch of the loop of htmlToNotionBlocks (lines 255-260) that runs
\* without a network call: from element idx to the next element that needs a
\* fetch, or to the end; every element on the way is built and its block pushed
\* unless it is null.  An img whose src does not parse is built here, with
\* verifyImageUrl returning false from its catch.
BuildStretch(elems, idx, blks) ==
    LET stops == {k \in idx..Len(elems) : NeedsFetch(elems[k])}
        stop == IF stops = {} THEN Len(elems) + 1 ELSE Min(stops)
        built == [k \in 1..(stop - idx) |-> elementToNotionBlock(elems[idx + k - 1], FALSE)]
        IsBlock(block) == block # Null
    IN  [elemIdx |-> stop, blocks |-> blks \o SelectSeq(built, IsBlock)]

----------------------------------------------------------------------------
(* Errors: createError of src/middleware/errorHandler.ts and the catch of  *)
(* markdownToNotion, lines 164-169                                          *)

\* createError(message, statusCode): an Error carrying a status code.
createError(message, statusCode) ==
    [kind |-> "error", isError |-> TRUE, message |-> message, statusCode |-> statusCode]

\* A failure raised by the Notion client: an Error with a message and no
\* status code of this service.
ApiError(message) ==
    [kind |-> "error", isError |-> TRUE, message |-> message, statusCode |-> 0]

ApiMessages == {<<"[notion: validation_error]">>}

CatchError_Rethrow(error) == error

\* catch (error) { ... }, lines 164-169: whatever was thrown inside the try
\* block, the 400 errors of lines 56 and 59 included, leaves as a 500 error.
CatchError(error) ==
    IF error.isError
    THEN createError(<<"[create-subpage-failed: ]">> \o error.message, 500)
    ELSE createError(<<"[unknown-error-while-creating-subpage]">>, 500)

----------------------------------------------------------------------------
(* The batch loop of markdownToNotion, lines 124-147 *)

BATCH_SIZE == 100

PAUSE_MS == 200

TimestampBlock ==
    Block("paragraph", <<Run(<<"[created-at: now]">>, "italic")>>, <<>>, <<>>)

DividerBlock == Block("divider", <<>>, <<>>, <<>>)

\* allBlocks.slice(i, i + BATCH_SIZE), with i counted from 0
Batch_OneShort(all, from) == SubSeq(all, from + 1, Min({from + BATCH_SIZE - 1, Len(all)}))

Batch(all, from) == SubSeq(all, from + 1, Min({from + BATCH_SIZE, Len(all)}))

\* block_id of the append call, line 137
AppendTarget_Parent(request, page) == request.notion_page_id

AppendTarget(request, page) == page

\* if (i + BATCH_SIZE < allBlocks.length), line 144
PauseNeeded_Always(from, length) == TRUE

PauseNeeded(from, length) == from + BATCH_SIZE < length

\* Math.ceil(allBlocks.length / BATCH_SIZE), line 161
BatchCount_Floor(length) == length \div BATCH_SIZE

BatchCount(length) == (length + BATCH_SIZE - 1) \div BATCH_SIZE

\* totalBlocksCreated += batch.length, line 141
AddCreated(total, batch) == total + Len(batch)

\* blocks.filter(block => block.type === 'image').length, line 150
imagesProcessed(blks) == Cardinality({k \in 1..Len(blks) : blks[k].type = "image"})

----------------------------------------------------------------------------
(* One conversion request: the /sync route and markdownToNotion *)

ParentId == "parent-page"

NewPageIds == {"page-1", "page-2"}

Requests ==
    [entry : {"sync", "direct"},
     content : {<<>>, <<"#", " ", "a">>},
     title : {<<>>, <<"T">>},
     notion_api_key : {"", "secret"},
     notion_page_id : {"", ParentId}]

\* What the Markdown converter and the scanner can hand to the builder: up to
\* MaxElems elements of these kinds, then filler paragraphs.
ElementKinds ==
    { Element("img", <<>>, GoodUrl, <<"a", "l", "t">>),
      Element("img", <<>>, BadUrl, <<>>),
      Element("img", <<>>, <<>>, <<>>),
      Element("p", <<"t">>, <<>>, <<>>),
      Element("h4", <<"h">>, <<>>, <<>>) }

PadChars == <<"x", "y", "z">>

Filler(n) == [k \in 1..n |-> Element("p", <<PadChars[(k % 3) + 1]>>, <<>>, <<>>)]

\* Filler lengths that put the number of blocks at, just below and just above
\* one and two full batches, and at MaxPad.
Pads == {BATCH_SIZE - 3, BATCH_SIZE - 2, 2 * BATCH_SIZE - 3, 2 * BATCH_SIZE - 2, MaxPad}

\* Short documents of up to MaxElems elements, and long documents of at most
\* one such element followed by filler paragraphs.
ScannedLists ==
    SeqsUpTo(ElementKinds, MaxElems)
        \cup {prefix \o Filler(n) : prefix \in SeqsUpTo(ElementKinds, 1), n \in Pads}

Event(op, arg, n) == [op |-> op, arg |-> arg, n |-> n]

Init ==
    /\ pc = "idle"
    /\ req \in Requests
    /\ elements = <<>> /\ elemIdx = 0 /\ blocks = <<>>
    /\ pageTitle = None /\ newPage = "" /\ allBlocks = <<>> /\ i = 0
    /\ totalBlocksCreated = 0 /\ calls = <<>> /\ submitted = <<>>
    /\ remote = [pages |-> {ParentId},
                 children |-> [id \in NewPageIds \cup {ParentId} |-> <<>>]]
    /\ outcome = [kind |-> "none"]
    /\ fnIn = None /\ fnOut = None

\* router.post('/sync', ...), src/src/routes/markdown.ts:56-80: a missing field
\* goes to next(error) as a 400 error; otherwise markdownToNotion is called.
SyncRoute ==
    /\ pc = "idle" /\ req.entry = "sync"
    /\ IF req.content = <<>>
       THEN outcome' = createError(<<"[missing markdown content]">>, 400) /\ pc' = "done"
       ELSE IF req.notion_api_key = ""
       THEN outcome' = createError(<<"[missing notion_api_key]">>, 400) /\ pc' = "done"
       ELSE IF req.notion_page_id = ""
       THEN outcome' = createError(<<"[missing notion_page_id]">>, 400) /\ pc' = "done"
       ELSE outcome' = outcome /\ pc' = "svc"
    /\ UNCHANGED <<req, elements, elemIdx, blocks, pageTitle, newPage, allBlocks, i,
                   totalBlocksCreated, calls, submitted, remote, fnIn, fnOut>>

\* markdownToNotion, lines 45-71, up to the first network call: the checks
\* of lines 55-60 throw inside the try block, so the catch of lines 164-169
\* handles them; otherwise the content is converted and scanned, and the
\* builder runs up to the first element that needs a probe.
Enter ==
    /\ pc = "svc" \/ (pc = "idle" /\ req.entry = "direct")
    /\ IF req.notion_api_key = ""
       THEN /\ outcome' = CatchError(createError(<<"[missing notion_api_key]">>, 400))
            /\ pc' = "done"
            /\ UNCHANGED <<elements, elemIdx, blocks>>
       ELSE IF req.notion_page_id = ""
       THEN /\ outcome' = CatchError(createError(<<"[missing notion_page_id]">>, 400))
            /\ pc' = "done"
            /\ UNCHANGED <<elements, elemIdx, blocks>>
       ELSE /\ \E scanned \in ScannedLists :
                 /\ elements' = scanned
                 /\ \E built \in {BuildStretch(scanned, 1, <<>>)} :
                       /\ elemIdx' = built.elemIdx
                       /\ blocks' = built.blocks
            /\ pc' = "build"
            /\ outcome' = outcome
    /\ UNCHANGED <<req, pageTitle, newPage, allBlocks, i, totalBlocksCreated, calls,
                   submitted, remote, fnIn, fnOut>>

\* verifyImageUrl, lines 734-748: fetch(url, HEAD) is sent.
ProbeCall ==
    /\ pc = "build" /\ elemIdx <= Len(elements)
    /\ calls' = Append(calls, Event("probe", elements[elemIdx].attributes.src, elemIdx))
    /\ pc' = "probing"
    /\ UNCHANGED <<req, elements, elemIdx, blocks, pageTitle, newPage, allBlocks, i,
                   totalBlocksCreated, submitted, remote, outcome, fnIn, fnOut>>

ProbeResults == {"ok", "not_ok", "throws"}

\* A probe that takes everything but a non-success status for reachable.
verifyImageUrl_UnlessStatus(result) == result # "not_ok"

\* return response.ok, or false from the catch
verifyImageUrl(result) == result = "ok"

\* The probe ends; the image or callout block is built (lines 682-722) and the
\* builder runs on to the next element that needs a probe.
ProbeReturn ==
    /\ pc = "probing"
    /\ \E result \in ProbeResults :
         \E rest \in {BuildStretch(elements, elemIdx + 1,
                          PushBlock(blocks, ImageBlock(elements[elemIdx],
                                                       verifyImageUrl(result))))} :
            /\ calls' = Append(calls, Event("probe_done", <<result>>, elemIdx))
            /\ elemIdx' = rest.elemIdx
            /\ blocks' = rest.blocks
    /\ pc' = "build"
    /\ UNCHANGED <<req, elements, pageTitle, newPage, allBlocks, i, totalBlocksCreated,
                   submitted, remote, outcome, fnIn, fnOut>>

\* const pageTitle = title || this.extractTitleFromContent(content), line 74:
\* the title of every request, as <<request, title>>.
pageTitles ==
    {<<request, ResolveTitle(request.title, request.content)>> : request \in Requests}

\* Lines 73-94: the title is resolved and notion.pages.create is called.
CreatePageCall ==
    /\ pc = "build" /\ elemIdx > Len(elements)
    /\ pageTitle' = (CHOOSE pair \in pageTitles : pair[1] = req)[2]
    /\ calls' = Append(calls, Event("create", <<req.notion_page_id>>, 0))
    /\ pc' = "creating"
    /\ UNCHANGED <<req, elements, elemIdx, blocks, newPage, allBlocks, i,
                   totalBlocksCreated, submitted, remote, outcome, fnIn, fnOut>>

\* notion.pages.create returns a new page; lines 96-129.
CreatePageReturn ==
    /\ pc = "creating"
    /\ \E id \in NewPageIds \ remote.pages :
         /\ newPage' = id
         /\ remote' = [remote EXCEPT !.pages = @ \cup {id}]
         /\ calls' = Append(calls, Event("create_done", <<id>>, 0))
    /\ allBlocks' = <<TimestampBlock, DividerBlock>> \o blocks
    /\ i' = 0
    /\ totalBlocksCreated' = 0
    /\ pc' = "loop"
    /\ UNCHANGED <<req, elements, elemIdx, blocks, pageTitle, submitted, outcome,
                   fnIn, fnOut>>

\* notion.pages.create fails: no page exists, the catch ends the invocation.
CreatePageFails ==
    /\ pc = "creating"
    /\ \E message \in ApiMessages :
         /\ outcome' = CatchError(ApiError(message))
         /\ calls' = Append(calls, Event("create_fail", message, 0))
    /\ pc' = "done"
    /\ UNCHANGED <<req, elements, elemIdx, blocks, pageTitle, newPage, allBlocks, i,
                   totalBlocksCreated, submitted, remote, fnIn, fnOut>>

\* Lines 131-139: the loop test holds; the batch is cut and submitted.
AppendCall ==
    /\ pc = "loop" /\ i < Len(allBlocks)
    /\ submitted' = Append(submitted, Batch(allBlocks, i))
    /\ calls' = Append(calls, Event("append", <<AppendTarget(req, newPage)>>, i))
    /\ pc' = "appending"
    /\ UNCHANGED <<req, elements, elemIdx, blocks, pageTitle, newPage, allBlocks, i,
                   totalBlocksCreated, remote, outcome, fnIn, fnOut>>

\* The append call completes: the remote page holds the batch; lines 141-146.
\* With a pause due the loop index moves on after the pause.
AppendReturn ==
    /\ pc = "appending"
    /\ LET batch == submitted[Len(submitted)]
           target == calls[Len(calls)].arg[1]
       IN  /\ remote' = [remote EXCEPT !.children[target] = @ \o batch]
           /\ totalBlocksCreated' = AddCreated(totalBlocksCreated, batch)
    /\ calls' = Append(calls, Event("append_done", <<>>, i))
    /\ IF PauseNeeded(i, Len(allBlocks))
       THEN pc' = "pause" /\ i' = i
       ELSE pc' = "loop" /\ i' = i + BATCH_SIZE
    /\ UNCHANGED <<req, elements, elemIdx, blocks, pageTitle, newPage, allBlocks,
                   submitted, outcome, fnIn, fnOut>>

\* await new Promise(resolve => setTimeout(resolve, 200)), line 145
Pause ==
    /\ pc = "pause"
    /\ calls' = Append(calls, Event("pause", <<>>, PAUSE_MS))
    /\ i' = i + BATCH_SIZE
    /\ pc' = "loop"
    /\ UNCHANGED <<req, elements, elemIdx, blocks, pageTitle, newPage, allBlocks,
                   totalBlocksCreated, submitted, remote, outcome, fnIn, fnOut>>

\* The append call fails: the remote page is left as it was, the catch ends
\* the invocation.
AppendFails ==
    /\ pc = "appending"
    /\ \E message \in ApiMessages :
         /\ outcome' = CatchError(ApiError(message))
         /\ calls' = Append(calls, Event("append_fail", message, i))
    /\ pc' = "done"
    /\ UNCHANGED <<req, elements, elemIdx, blocks, pageTitle, newPage, allBlocks, i,
                   totalBlocksCreated, submitted, remote, fnIn, fnOut>>

\* Lines 149-162: the loop is over, the result is returned.
Return ==
    /\ pc = "loop" /\ i >= Len(allBlocks)
    /\ outcome' = [kind |-> "result", success |-> TRUE, notionPageId |-> newPage,
                   title |-> pageTitle, blocksCreated |-> totalBlocksCreated,
                   imagesProcessed |-> imagesProcessed(blocks),
                   batches |-> BatchCount(Len(allBlocks))]
    /\ pc' = "done"
    /\ UNCHANGED <<req, elements, elemIdx, blocks, pageTitle, newPage, allBlocks, i,
                   totalBlocksCreated, calls, submitted, remote, fnIn, fnOut>>

Next ==
    \/ SyncRoute
    \/ Enter
    \/ ProbeCall
    \/ ProbeReturn
    \/ CreatePageCall
    \/ CreatePageReturn
    \/ CreatePageFails
    \/ AppendCall
    \/ AppendReturn
    \/ Pause
    \/ AppendFails
    \/ Return

Spec == Init /\ [][Next]_vars

----------------------------------------------------------------------------
(* Properties of one invocation *)

Returned == pc = "done" /\ outcome.kind = "result"

RECURSIVE Flatten(_)
Flatten(chunks) == IF chunks = <<>> THEN <<>> ELSE Head(chunks) \o Flatten(Tail(chunks))

EventsOf(ops) == {k \in 1..Len(calls) : calls[k].op \in ops}

\* The k-th smallest member of a set of positions.
Nth(positions, k) == CHOOSE x \in positions : Cardinality({y \in positions : y < x}) = k - 1

\* C1: a successful run over N built blocks submits exactly ceil((N+2)/100)
\* chunks; every chunk but the last holds exactly 100 blocks and the last
\* between 1 and 100; the chunks, joined in submission order, are the
\* timestamp paragraph, the divider and the N built blocks in their order.
C1_ChunksPartitionAllBlocks ==
    Returned =>
        LET k == Len(submitted)
            total == Len(blocks) + 2
        IN  /\ 100 * k >= total /\ 100 * (k - 1) < total
            /\ Cardinality(EventsOf({"append"})) = k
            /\ \A c \in 1..(k - 1) : Len(submitted[c]) = 100
            /\ Len(submitted[k]) \in 1..100
            /\ Flatten(submitted) = <<TimestampBlock, DividerBlock>> \o blocks

\* C1 witness: 250 built blocks went out as chunks of 100, 100 and 52.
C1_Witness ==
    /\ Returned
    /\ Len(blocks) = 250
    /\ [c \in 1..Len(submitted) |-> Len(submitted[c])] = <<100, 100, 52>>

StartOps == {"probe", "create", "append"}

EndOf(op) ==
    CASE op = "probe" -> {"probe_done"}
      [] op = "create" -> {"create_done", "create_fail"}
      [] op = "append" -> {"append_done", "append_fail"}

EndOps == {"probe_done", "create_done", "create_fail", "append_done", "append_fail"}

Phase(op) ==
    IF op \in {"probe", "probe_done"} THEN 1
    ELSE IF op \in {"create", "create_done", "create_fail"} THEN 2
    ELSE 3

\* C2: the external calls of one invocation never overlap and come in one
\* order: the image probes one at a time in scan order, then the one
\* create-page call, then the appends of chunk 1, 2, ...; a chunk is submitted
\* only after the append before it has completed, and every append targets
\* the page id that the create-page call of this invocation returned.
C2_CallsInSequence ==
    /\ \A k \in 1..Len(calls) :
          /\ calls[k].op \in StartOps =>
                (k = Len(calls) \/ calls[k + 1].op \in EndOf(calls[k].op))
          /\ calls[k].op \in EndOps =>
                (k > 1 /\ calls[k - 1].op \in StartOps /\ calls[k].op \in EndOf(calls[k - 1].op))
    /\ \A j, k \in 1..Len(calls) : j < k => Phase(calls[j].op) <= Phase(calls[k].op)
    /\ Cardinality(EventsOf({"create"})) <= 1
    /\ LET probes == EventsOf({"probe"})
           due == {e \in 1..Len(elements) : e <= elemIdx /\ NeedsFetch(elements[e])}
       IN  /\ \A j, k \in probes : j < k => calls[j].n < calls[k].n
           /\ \A k \in probes : calls[k].arg = elements[calls[k].n].attributes.src
           /\ (pc = "build" /\ elemIdx <= Len(elements)) \/ {calls[k].n : k \in probes} = due
    /\ LET appends == EventsOf({"append"})
       IN  \A c \in 1..Cardinality(appends) :
              LET k == Nth(appends, c)
              IN  /\ calls[k].n = 100 * (c - 1)
                  /\ c > 1 => calls[k - 1].op \in {"append_done", "pause"}
                  /\ c > 1 => \E d \in EventsOf({"append_done"}) :
                                 d < k /\ calls[d].n = 100 * (c - 2)
                  /\ \E d \in EventsOf({"create_done"}) :
                        d < k /\ calls[k].arg = calls[d].arg /\ calls[d].arg = <<newPage>>

\* C2 witness: a finished run with a probe, the create-page call and at
\* least two appends.
C2_Witness ==
    /\ Returned
    /\ EventsOf({"probe"}) # {}
    /\ Cardinality(EventsOf({"append_done"})) >= 2

\* C3: a successful run with k chunks pauses exactly k-1 times: every pause
\* directly follows the completion of a chunk and directly precedes the
\* submission of the next one, every completed chunk but the last is followed
\* by a pause, and nothing follows the completion of the last chunk.
C3_PausesBetweenChunks ==
    Returned =>
        /\ Cardinality(EventsOf({"pause"})) = Len(submitted) - 1
        /\ \A k \in EventsOf({"pause"}) :
              /\ k > 1 /\ calls[k - 1].op = "append_done"
              /\ k < Len(calls) /\ calls[k + 1].op = "append"
        /\ \A k \in EventsOf({"append_done"}) : k < Len(calls) => calls[k + 1].op = "pause"
        /\ calls[Len(calls)].op = "append_done"

\* C3 witness: a successful run of three chunks, with its two pauses.
C3_Witness ==
    /\ Returned
    /\ Len(submitted) = 3
    /\ Cardinality(EventsOf({"pause"})) = 2

AppendFailed == pc = "done" /\ calls # <<>> /\ calls[Len(calls)].op = "append_fail"

\* C4: when the append of chunk j fails, the invocation ends with a 500 error
\* whose message wraps the failure message and with no result; chunk j was
\* submitted once, no later chunk was submitted and nothing more happens; the
\* created page still exists and holds exactly chunks 1..j-1.
C4_AppendFailureEndsRun ==
    AppendFailed =>
        LET j == Len(submitted)
        IN  /\ outcome.kind = "error"
            /\ outcome.statusCode = 500
            /\ outcome.message = <<"[create-subpage-failed: ]">> \o calls[Len(calls)].arg
            /\ Cardinality(EventsOf({"append"})) = j
            /\ \A c \in 1..j : calls[Nth(EventsOf({"append"}), c)].n = 100 * (c - 1)
            /\ Cardinality(EventsOf({"append_done"})) = j - 1
            /\ ~ENABLED Next
            /\ newPage \in remote.pages
            /\ remote.children[newPage] = Flatten(SubSeq(submitted, 1, j - 1))

\* C4 witness: the append of the second chunk failed and the page holds the
\* first chunk.
C4_Witness ==
    /\ AppendFailed
    /\ Len(submitted) = 2
    /\ Len(remote.children[newPage]) = 100

\* A required field of the request is missing.
MissingField ==
    \/ req.notion_api_key = ""
    \/ req.notion_page_id = ""
    \/ (req.entry = "sync" /\ req.content = <<>>)

\* C5: a request with a missing required field (API key or parent page id
\* passed to markdownToNotion; content, API key or parent page id in the /sync
\* route) ends with a 400 error, and no network call was made for it.
C5_MissingFieldIs400 ==
    (pc = "done" /\ MissingField) =>
        /\ outcome.kind = "error"
        /\ outcome.statusCode = 400
        /\ calls = <<>>

\* The part of C5 the code keeps: a request with a missing field ends in an
\* error without a network call, and the /sync route answers it with status 400.
C5_NoCallAndSyncIs400 ==
    (pc = "done" /\ MissingField) =>
        /\ outcome.kind = "error"
        /\ calls = <<>>
        /\ req.entry = "sync" => outcome.statusCode = 400

\* C6: whenever a result is returned, blocksCreated is the number of blocks
\* handed to the appends that completed, which is the number of built blocks
\* plus 2 and what the page holds, and batches is the number of append calls.
C6_ResultCounts ==
    Returned =>
        /\ Cardinality(EventsOf({"append_done"})) = Cardinality(EventsOf({"append"}))
        /\ outcome.blocksCreated = Len(Flatten(submitted))
        /\ outcome.blocksCreated = Len(blocks) + 2
        /\ outcome.blocksCreated = Len(remote.children[newPage])
        /\ outcome.batches = Cardinality(EventsOf({"append"}))

\* C6 witness: a result reporting 252 blocks in 3 batches.
C6_Witness ==
    /\ Returned
    /\ outcome.blocksCreated = 252
    /\ outcome.batches = 3

ImgElements == {k \in 1..Len(elements) : elements[k].tag = "img"}

\* C7: imagesProcessed counts every image-typed scanned element (each with a
\* src here), an image whose reachability check failed and whose block is a
\* callout included.
C7_CountsEveryImageElement ==
    (Returned /\ \A k \in ImgElements : elements[k].attributes.src # <<>>) =>
        outcome.imagesProcessed = Cardinality(ImgElements)

\* What the code counts: the blocks of type image, that is the images whose
\* probe succeeded.
C7_CountsImageBlocks ==
    Returned =>
        outcome.imagesProcessed =
            Cardinality({k \in EventsOf({"probe_done"}) : calls[k].arg = <<"ok">>})

----------------------------------------------------------------------------
(* htmlToRichText on raw fragments: TokSpec draws a fragment as a sequence *)
(* of pieces, among them tags the tokenizer does not recognise, a '<' that *)
(* no '>' follows, and opening tags without their closing tag              *)

BR == <<"b", "r">>

A == <<"a">>

TextPieces == {<<"x">>, <<" ", "y">>}

OtherTagPieces == {OpenTag(BR), OpenTag(A), CloseTag(A)}

LoneLt == <<"<">>

TokPieces ==
    TextPieces \cup OtherTagPieces \cup {LoneLt}
        \cup {OpenTag(EM), CloseTag(EM), OpenTag(S)}

RawFragments == SeqsUpTo(TokPieces, MaxToks)

TokSpecInit ==
    /\ pc = "tok_ready"
    /\ fnIn \in RawFragments
    /\ fnOut = None
    /\ NoInvocation

ApplyTokenize ==
    /\ pc = "tok_ready"
    /\ fnOut' = htmlToRichText(Flatten(fnIn))
    /\ pc' = "tok_done"
    /\ UNCHANGED <<fnIn, orchVars>>

TokNext == ApplyTokenize

TokSpec == TokSpecInit /\ [][TokNext]_vars

Contains(s, needle) == IndexOf(s, needle, 1) # 0

\* The fragment holds none of the five recognised opening tags.
NoRecognizedTag(html) == \A tag \in SpanTags : ~Contains(html, OpenTag(tag))

\* The text of a fragment that stands outside angle brackets: each '<' up to
\* the next '>' is left out, and so is everything from a '<' that no '>'
\* follows.
RECURSIVE OutsideText(_)
OutsideText(html) ==
    LET open == IndexOf(html, <<"<">>, 1)
        close == IF open = 0 THEN 0 ELSE IndexOf(html, <<">">>, open)
    IN  IF open = 0 THEN html
        ELSE IF close = 0 THEN SubSeq(html, 1, open - 1)
        ELSE SubSeq(html, 1, open - 1) \o OutsideText(SubSeq(html, close + 1, Len(html)))

RunTexts(runs) == Flatten([k \in 1..Len(runs) |-> runs[k].content])

\* C11 as stated: a fragment with none of the recognised tags comes back as
\* exactly one run whose text is the whole fragment verbatim, other HTML tags
\* included.
C11_WholeFragmentVerbatim ==
    (pc = "tok_done" /\ NoRecognizedTag(Flatten(fnIn))) =>
        fnOut = <<Run(Flatten(fnIn), "none")>>

\* Every '<' of the fragment has a '>' after it.
EveryLtClosed(html) ==
    \A k \in 1..Len(html) : html[k] = "<" => IndexOf(html, <<">">>, k) # 0

\* C11, amended: a fragment with none of the recognised tags comes back as
\* unstyled runs only; it comes back as exactly one run holding the whole
\* fragment verbatim when it holds no '<' at all or no text outside angle
\* brackets; in every other case no run holds a tag: the other tags are
\* removed, not passed through, and when every '<' has its '>' the runs
\* together hold exactly the text outside the tags.
C11_VerbatimOnlyWithoutOtherTags ==
    (pc = "tok_done" /\ NoRecognizedTag(Flatten(fnIn))) =>
        LET html == Flatten(fnIn)
        IN  /\ \A k \in 1..Len(fnOut) : fnOut[k].annotation = "none"
            /\ (~Contains(html, <<"<">>) \/ OutsideText(html) = <<>>)
                  => fnOut = <<Run(html, "none")>>
            /\ (Contains(html, <<"<">>) /\ OutsideText(html) # <<>>)
                  => \A k \in 1..Len(fnOut) : ~Contains(fnOut[k].content, <<"<">>)
            /\ (EveryLtClosed(html) /\ OutsideText(html) # <<>>)
                  => RunTexts(fnOut) = OutsideText(html)

\* C11 witness: text around an unrecognised tag came back as two runs, the
\* tag removed.
C11_Witness ==
    /\ pc = "tok_done"
    /\ fnIn = <<<<"x">>, OpenTag(BR), <<" ", "y">>>>
    /\ fnOut = <<Run(<<"x">>, "none"), Run(<<" ", "y">>, "none")>>

\* The fallback of line 539: a fragment of one unrecognised tag comes back
\* verbatim.
C11_TagOnlyVerbatim ==
    (pc = "tok_done" /\ fnIn = <<OpenTag(BR)>>) => fnOut = <<Run(OpenTag(BR), "none")>>

\* The last piece that cannot be matched: a '<' that no '>' follows, or an
\* opening <em> or <s> that no closing tag follows, when it is
\* followed by plain text only.
UnmatchedThenText(f) ==
    {k \in 1..(Len(f) - 1) :
        /\ f[k] \in {LoneLt, OpenTag(EM), OpenTag(S)}
        /\ \A j \in (k + 1)..Len(f) : f[j] \in TextPieces}

TextAfter(f, k) == Flatten(SubSeq(f, k + 1, Len(f)))

EndsWith(s, suffix) ==
    Len(s) >= Len(suffix) /\ SubSeq(s, Len(s) - Len(suffix) + 1, Len(s)) = suffix

\* C16: after angle-bracket content that cannot be matched (a '<' with no
\* following '>', or a recognised opening tag with no closing tag) the
\* tokenizer goes back to collecting plain text: the plain text that follows
\* it is all in the returned runs, nothing after it is dropped.
C16_TextAfterUnmatchedKept ==
    pc = "tok_done" =>
        \A k \in UnmatchedThenText(fnIn) :
            EndsWith(RunTexts(fnOut), TextAfter(fnIn, k))

\* The half of C16 the code keeps: the text after an opening tag without its
\* closing tag is all in the returned runs.
C16_TextAfterUnclosedTagKept ==
    pc = "tok_done" =>
        \A k \in UnmatchedThenText(fnIn) :
            fnIn[k] # LoneLt => EndsWith(RunTexts(fnOut), TextAfter(fnIn, k))

----------------------------------------------------------------------------
(* parseHtmlElements, src/src/services/htmlToNotionService.ts:268-400      *)
(* The HTML text is a sequence of atoms: a whole tag is one atom, every    *)
(* other character is an atom of its own.  The contents drawn for the      *)
(* scanner hold plain characters only.                                     *)

HOpen == {"<h1>", "<h2>", "<h3>", "<h4>", "<h5>", "<h6>"}

HClose == {"</h1>", "</h2>", "</h3>", "</h4>", "</h5>", "</h6>"}

\* `h${headingMatch[1]}`, line 297
HeadingTag(open) ==
    CASE open = "<h1>" -> "h1" [] open = "<h2>" -> "h2" [] open = "<h3>" -> "h3"
      [] open = "<h4>" -> "h4" [] open = "<h5>" -> "h5" [] open = "<h6>" -> "h6"

JsClass == <<"l", "a", "n", "g", "u", "a", "g", "e", "-", "j", "s">>

\* The opening <code ...> tags drawn, with the value of the class attribute
\* (empty: no class attribute).
CodeOpen == {"<code>", "<code class=\"language-js\">"}

CodeClass(open) == IF open = "<code>" THEN <<>> ELSE JsClass

SrcGoodAttr == "src=\"http://img/1\""

AltAttr == "alt=\"a\""

TableTags == {"<table>", "</table>", "<thead>", "</thead>", "<tbody>", "</tbody>"}

CellOpen == {"<td>", "<th>"}

CellClose == {"</td>", "</th>"}

\* The atoms that are whole tags.
TagAtoms ==
    HOpen \cup HClose \cup CodeOpen \cup TableTags \cup CellOpen \cup CellClose
        \cup {"<pre>", "</pre>", "</code>", "<blockquote>", "</blockquote>",
              "<li>", "</li>", "<tr>", "</tr>", "<p>", "</p>", "<div>", "</div>"}

\* The atom starts with '<' / ends with '>'.
StartsLt(atom) == atom \in TagAtoms \cup {"<img", "<"}

EndsGt(atom) == atom \in TagAtoms \cup {">", "/>"}

NoPair == [at |-> 0, end |-> 0, content |-> <<>>]

\* line.match(/open(.*?)close/): the leftmost opening tag that has a closing
\* tag after it, up to the nearest such closing tag.
PairMatch(line, opens, closes) ==
    LET ps == {p \in 1..Len(line) :
                  line[p] \in opens /\ \E q \in (p + 1)..Len(line) : line[q] \in closes}
    IN  IF ps = {} THEN NoPair
        ELSE LET p == Min(ps)
                 q == Min({r \in (p + 1)..Len(line) : line[r] \in closes})
             IN  [at |-> p, end |-> q, content |-> SubSeq(line, p + 1, q - 1)]

\* /<img\s+([^>]*)\s*\/?>/, line 282: "<img", white space, then everything up
\* to the next '>'.
imgMatch(line) ==
    LET ps == {p \in 1..(Len(line) - 2) :
                  /\ line[p] = "<img" /\ IsWs(line[p + 1])
                  /\ \E q \in (p + 2)..Len(line) : EndsGt(line[q])}
    IN  IF ps = {} THEN NoPair
        ELSE LET p == Min(ps)
                 q == Min({r \in (p + 2)..Len(line) : EndsGt(line[r])})
             IN  [at |-> p, end |-> q, content |-> SubSeq(line, p + 2, q - 1)]

\* parseAttributes, lines 564-574, for the attributes drawn: the value of the
\* named attribute, empty when it is not there.
parseAttributes(attrString, name) ==
    IF name = "src" /\ \E k \in 1..Len(attrString) : attrString[k] = SrcGoodAttr THEN GoodUrl
    ELSE IF name = "alt" /\ \E k \in 1..Len(attrString) : attrString[k] = AltAttr THEN <<"a">>
    ELSE <<>>

\* /<h([1-6])>(.*?)<\/h[1-6]>/, line 294
headingMatch(line) == PairMatch(line, HOpen, HClose)

\* /<pre><code(?:\s+class="([^"]*)")?>([\s\S]*?)<\/code><\/pre>/, lines 304
\* and 395: the leftmost <pre><code ...> with a </code></pre> after it, up to
\* the nearest one.
codeBlockMatch(text) ==
    LET Closes(q) == q + 1 <= Len(text) /\ text[q] = "</code>" /\ text[q + 1] = "</pre>"
        ps == {p \in 1..(Len(text) - 1) :
                  /\ text[p] = "<pre>" /\ text[p + 1] \in CodeOpen
                  /\ \E q \in (p + 2)..Len(text) : Closes(q)}
    IN  IF ps = {} THEN NoPair
        ELSE LET p == Min(ps)
                 q == Min({r \in (p + 2)..Len(text) : Closes(r)})
             IN  [at |-> p, end |-> q, content |-> SubSeq(text, p + 2, q - 1)]

blockquoteMatch(line) == PairMatch(line, {"<blockquote>"}, {"</blockquote>"})

listItemMatch(line) == PairMatch(line, {"<li>"}, {"</li>"})

tableRowMatch(line) == PairMatch(line, {"<tr>"}, {"</tr>"})

paragraphMatch(line) == PairMatch(line, {"<p>"}, {"</p>"})

\* /<\/?table>|<\/?thead>|<\/?tbody>/, line 362
tableStructureMatch(line) == \E k \in 1..Len(line) : line[k] \in TableTags

\* The cells of a table row, lines 345-350.
RECURSIVE Cells(_)
Cells(row) ==
    LET cellMatch == PairMatch(row, CellOpen, CellClose)
    IN  IF cellMatch.at = 0 THEN <<>>
        ELSE <<stripHtmlTags(cellMatch.content)>>
                \o Cells(SubSeq(row, cellMatch.end + 1, Len(row)))

\* language of a code block, lines 306-312
Language(class) ==
    LET marker == <<"l", "a", "n", "g", "u", "a", "g", "e", "-">>
        \* .*language-([^\s]+).* : the last "language-" with a name after it
        ks == {k \in 1..(Len(class) - 9) :
                  SubSeq(class, k, k + 8) = marker /\ ~IsWs(class[k + 9])}
        from == Max(ks) + 9
        ends == {e \in from..Len(class) : e = Len(class) \/ IsWs(class[e + 1])}
        named == IF class = <<>> THEN PlainText
                 ELSE IF ks = {} THEN class
                 ELSE SubSeq(class, from, Min(ends))
    IN  normalizeLanguage(named)

\* preprocessCodeBlocks, lines 394-400: inside every <pre><code> span each
\* line break becomes the two characters backslash and n.
RECURSIVE preprocessCodeBlocks(_)
preprocessCodeBlocks(html) ==
    LET span == codeBlockMatch(html)
    IN  IF span.at = 0 THEN html
        ELSE SubSeq(html, 1, span.at + 1)
                \o ReplaceAll(span.content, <<"\n">>, <<"\\", "n">>)
                \o <<"</code>", "</pre>">>
                \o preprocessCodeBlocks(SubSeq(html, span.end + 2, Len(html)))

PreElement(content, language) ==
    [Element("pre", content, <<>>, <<>>) EXCEPT !.attributes.language = language]

TableRowElement(cells) ==
    [Element("table-row", <<>>, <<>>, <<>>) EXCEPT !.attributes.cells = cells]

\* The rules after the image rule, lines 293-385, for one trimmed line: the
\* elements the line adds (none or one).
ScanAfterImage(line) ==
    IF headingMatch(line).at # 0
    THEN <<Element(HeadingTag(line[headingMatch(line).at]), headingMatch(line).content, <<>>, <<>>)>>
    ELSE IF codeBlockMatch(line).at # 0
    THEN <<PreElement(codeBlockMatch(line).content,
                      Language(CodeClass(line[codeBlockMatch(line).at + 1])))>>
    ELSE IF blockquoteMatch(line).at # 0
    THEN <<Element("blockquote", blockquoteMatch(line).content, <<>>, <<>>)>>
    ELSE IF listItemMatch(line).at # 0
    THEN <<Element("li", listItemMatch(line).content, <<>>, <<>>)>>
    ELSE IF tableRowMatch(line).at # 0
    THEN IF Cells(tableRowMatch(line).content) # <<>>
         THEN <<TableRowElement(Cells(tableRowMatch(line).content))>> ELSE <<>>
    ELSE IF tableStructureMatch(line) THEN <<>>
    ELSE IF paragraphMatch(line).at # 0
    THEN IF Trim(paragraphMatch(line).content) # <<>>
         THEN <<Element("p", paragraphMatch(line).content, <<>>, <<>>)>> ELSE <<>>
    ELSE IF line # <<>> /\ ~StartsLt(line[1]) /\ ~EndsGt(line[Len(line)])
    THEN <<Element("p", line, <<>>, <<>>)>>
    ELSE <<>>

\* The scan without its image rule.
ScanLine_NoImageRule(line) == ScanAfterImage(line)

\* One pass of the loop of lines 277-386 over a trimmed line.
ScanLine(line) ==
    IF imgMatch(line).at # 0
    THEN <<Element("img", <<>>,
                   parseAttributes(imgMatch(line).content, "src"),
                   parseAttributes(imgMatch(line).content, "alt"))>>
    ELSE ScanAfterImage(line)

IsNonBlank(line) == Trim(line) # <<>>

\* html.split('\n').filter(line => line.trim()), line 275
NonBlankLines(html) == SelectSeq(Lines(html), IsNonBlank)

parseHtmlElements(html) ==
    LET lines == NonBlankLines(preprocessCodeBlocks(html))
    IN  Flatten([k \in 1..Len(lines) |-> ScanLine(Trim(lines[k]))])

----------------------------------------------------------------------------
(* parseHtmlElements as a pure function: ScanSpec draws an HTML text as up *)
(* to MaxLines lines, each one of the line shapes below                    *)

ImgTag == <<"<img", " ", SrcGoodAttr, " ", AltAttr, " ", "/>">>

LineShapes ==
    {ImgTag,
     <<"<h2>", "t", "</h2>">>,
     <<"<h4>", "t", "</h4>">>,
     <<"<pre>", "<code>", "a", "\n", "b", "</code>", "</pre>">>,
     <<"<blockquote>", "q", "</blockquote>">>,
     <<"<li>", "i", "</li>">>,
     <<"<tr>", "<td>", "c", "</td>", "<th>", "d", "</th>", "</tr>">>,
     <<"<tr>", "</tr>">>,
     <<"<table>">>,
     <<"<p>", "t", "</p>">>,
     <<"<p>", " ", "</p>">>,
     <<" ", "t", "x", " ">>,
     <<"<div>">>,
     <<" ">>,
     \* lines on which more than one rule matches
     <<"<p>", "t", "</p>", "<h1>", "u", "</h1>">>,
     <<"<li>">> \o ImgTag \o <<"</li>">>,
     <<"<table>", "<tr>", "<td>", "c", "</td>", "</tr>">>,
     <<"<p>", "<blockquote>", "q", "</blockquote>", "</p>">>}

RECURSIVE JoinLines(_)
JoinLines(lines) ==
    IF lines = <<>> THEN <<>>
    ELSE IF Len(lines) = 1 THEN lines[1]
    ELSE lines[1] \o <<"\n">> \o JoinLines(Tail(lines))

HtmlTexts == {JoinLines(lines) : lines \in SeqsUpTo(LineShapes, MaxLines)}

ScanInit ==
    /\ pc = "scan_ready"
    /\ fnIn \in HtmlTexts
    /\ fnOut = None
    /\ NoInvocation

ApplyParseHtmlElements ==
    /\ pc = "scan_ready"
    /\ fnOut' = parseHtmlElements(fnIn)
    /\ pc' = "scan_done"
    /\ UNCHANGED <<fnIn, orchVars>>

ScanNext == ApplyParseHtmlElements

ScanSpec == ScanInit /\ [][ScanNext]_vars

\* The rules in the order the claim gives them; 0: no rule matches.
RuleMatches(rule, line) ==
    CASE rule = 1 -> imgMatch(line).at # 0
      [] rule = 2 -> headingMatch(line).at # 0
      [] rule = 3 -> codeBlockMatch(line).at # 0
      [] rule = 4 -> blockquoteMatch(line).at # 0
      [] rule = 5 -> listItemMatch(line).at # 0
      [] rule = 6 -> tableRowMatch(line).at # 0
      [] rule = 7 -> tableStructureMatch(line)
      [] rule = 8 -> paragraphMatch(line).at # 0
      [] rule = 9 -> ~StartsLt(line[1]) /\ ~EndsGt(line[Len(line)])

FirstRule(line) ==
    LET rules == {rule \in 1..9 : RuleMatches(rule, line)}
    IN  IF rules = {} THEN 0 ELSE Min(rules)

\* The tags a line adds as the claim has it: none or one, by its first rule.
TagsAsClaimed(line) ==
    LET rule == FirstRule(line)
    IN  CASE rule = 1 -> <<"img">>
          [] rule = 2 -> <<HeadingTag(line[headingMatch(line).at])>>
          [] rule = 3 -> <<"pre">>
          [] rule = 4 -> <<"blockquote">>
          [] rule = 5 -> <<"li">>
          [] rule = 6 -> IF \E k \in 1..Len(line) : line[k] \in CellOpen
                         THEN <<"table-row">> ELSE <<>>
          [] rule = 7 -> <<>>
          [] rule = 8 -> IF Trim(paragraphMatch(line).content) # <<>> THEN <<"p">> ELSE <<>>
          [] rule = 9 -> <<"p">>
          [] rule = 0 -> <<>>

TagsOf(elems) == [k \in 1..Len(elems) |-> elems[k].tag]

\* C15: parseHtmlElements emits at most one element per non-blank line (of
\* the text with its code blocks made single lines), chosen by the first rule
\* that matches in the order image, heading, code block, blockquote, list
\* item, table row, table structural tag (no element), paragraph (no element
\* when empty after trimming), plain text; a line matching no rule emits
\* nothing; the elements are in the order of their lines.
C15_FirstMatchingRulePerLine ==
    pc = "scan_done" =>
        LET lines == NonBlankLines(preprocessCodeBlocks(fnIn))
        IN  /\ Len(fnOut) <= Len(lines)
            /\ TagsOf(fnOut) = Flatten([k \in 1..Len(lines) |-> TagsAsClaimed(Trim(lines[k]))])

\* C15 witness: a line on which the image and the list-item rule match gave
\* the image element, and the paragraph line after it a paragraph.
C15_Witness ==
    /\ pc = "scan_done"
    /\ fnIn = JoinLines(<<<<"<li>">> \o ImgTag \o <<"</li>">>, <<"<p>", "t", "</p>">>>>)
    /\ TagsOf(fnOut) = <<"img", "p">>

\* C14: the scanner never emits an element with tag h4, h5 or h6: every
\* heading element it emits is one the builder turns into a heading block.
C14_NoHeadingBelowLevel3 ==
    pc = "scan_done" =>
        \A k \in 1..Len(fnOut) :
            /\ fnOut[k].tag \notin {"h4", "h5", "h6"}
            /\ fnOut[k].tag \in {"h1", "h2", "h3", "h4", "h5", "h6"}
                  => elementToNotionBlock(fnOut[k], FALSE) # Null

\* What holds: the headings of level 1 to 3 that the scanner emits become
\* heading blocks.
C14_Levels1To3Built ==
    pc = "scan_done" =>
        \A k \in 1..Len(fnOut) :
            fnOut[k].tag \in {"h1", "h2", "h3"}
                => elementToNotionBlock(fnOut[k], FALSE).type
                      \in {"heading_1", "heading_2", "heading_3"}

----------------------------------------------------------------------------
(* markdownToHtml and cleanupHtml, lines 175-209, and the way of one code  *)
(* block through conversion, scan and build                                *)

\* A Markdown document that is one fenced code block.
Fence(language, body) == [kind |-> "fence", language |-> language, body |-> body]

\* this.converter.makeHtml(markdown), line 178, for a fenced code block: the
\* body between <pre><code class="language-..."> and </code></pre>.
makeHtml(markdown) ==
    <<"<pre>", IF markdown.language = <<>> THEN "<code>" ELSE "<code class=\"language-js\">">>
        \o markdown.body \o <<"</code>", "</pre>">>

\* html.replace(/\n\s*\n/g, '\n'), line 197: a line break, any white space
\* and a last line break become one line break.
RECURSIVE CollapseBlankLines(_)
CollapseBlankLines(html) ==
    LET starts == {k \in 1..Len(html) :
                      /\ html[k] = "\n"
                      /\ \E m \in (k + 1)..Len(html) :
                            html[m] = "\n" /\ \A j \in (k + 1)..m : IsWs(html[j])}
    IN  IF starts = {} THEN html
        ELSE LET k == Min(starts)
                 m == Max({n \in (k + 1)..Len(html) :
                              html[n] = "\n" /\ \A j \in (k + 1)..n : IsWs(html[j])})
             IN  SubSeq(html, 1, k) \o CollapseBlankLines(SubSeq(html, m + 1, Len(html)))

\* html.replace(/<p>\s*<\/p>/g, ''), line 200
RECURSIVE RemoveEmptyParagraphs(_)
RemoveEmptyParagraphs(html) ==
    LET starts == {k \in 1..Len(html) :
                      /\ html[k] = "<p>"
                      /\ \E m \in (k + 1)..Len(html) :
                            html[m] = "</p>" /\ \A j \in (k + 1)..(m - 1) : IsWs(html[j])}
    IN  IF starts = {} THEN html
        ELSE LET k == Min(starts)
                 m == Min({n \in (k + 1)..Len(html) : html[n] = "</p>"})
             IN  SubSeq(html, 1, k - 1) \o RemoveEmptyParagraphs(SubSeq(html, m + 1, Len(html)))

\* html.replace(/<img([^>]*?)>/g, '<img$1 />'), line 203, for an image tag
\* closed by '>' or by '/>'.
RECURSIVE CloseImageTags(_)
CloseImageTags(html) ==
    LET starts == {k \in 1..Len(html) :
                      html[k] = "<img" /\ \E m \in (k + 1)..Len(html) : EndsGt(html[m])}
    IN  IF starts = {} THEN html
        ELSE LET k == Min(starts)
                 m == Min({n \in (k + 1)..Len(html) : EndsGt(html[n])})
             IN  SubSeq(html, 1, m - 1)
                    \o (IF html[m] = "/>" THEN <<"/", " ", "/>">>
                        ELSE IF html[m] = ">" THEN <<" ", "/>">>
                        ELSE <<html[m], " ", "/>">>)
                    \o CloseImageTags(SubSeq(html, m + 1, Len(html)))

cleanupHtml(html) == Trim(CloseImageTags(RemoveEmptyParagraphs(CollapseBlankLines(html))))

markdownToHtml(markdown) == cleanupHtml(makeHtml(markdown))

\* htmlToNotionBlocks, lines 249-263, for a text without images.
htmlToNotionBlocks(html) ==
    LET elems == parseHtmlElements(html)
    IN  [elements |-> elems, blocks |-> BuildStretch(elems, 1, <<>>).blocks]

BodyChars == {"a", "b", "\n", "\\", "n"}

CodeBodies == SeqsUpTo(BodyChars, MaxBodyLen)

CodeInit ==
    /\ pc = "code_ready"
    /\ fnIn \in CodeBodies
    /\ fnOut = None
    /\ NoInvocation

\* The HTML of one code block given to the scanner and the builder.
ApplyScanAndBuild ==
    /\ pc = "code_ready"
    /\ fnOut' = htmlToNotionBlocks(<<"<pre>", "<code>">> \o fnIn \o <<"</code>", "</pre>">>)
    /\ pc' = "code_scanned"
    /\ UNCHANGED <<fnIn, orchVars>>

\* A fenced code block taken through markdownToHtml, the scanner and the
\* builder.
ApplyPipeline ==
    /\ pc = "code_ready"
    /\ fnOut' = htmlToNotionBlocks(markdownToHtml(Fence(<<"j", "s">>, fnIn)))
    /\ pc' = "code_piped"
    /\ UNCHANGED <<fnIn, orchVars>>

CodeNext == ApplyScanAndBuild \/ ApplyPipeline

CodeSpec == CodeInit /\ [][CodeNext]_vars

\* One pre element, and one code block whose content is the body.
OneCodeBlockOf(body, out) ==
    /\ Len(out.elements) = 1 /\ out.elements[1].tag = "pre"
    /\ Len(out.blocks) = 1 /\ out.blocks[1].type = "code"
    /\ out.blocks[1].rich_text = <<Run(body, "none")>>

HasLiteralBackslashN(body) == Contains(body, <<"\\", "n">>)

HasBlankLine(body) ==
    \E k \in 2..(Len(body) - 2) :
        /\ body[k] = "\n" /\ body[k + 1] = "\n"
        /\ body[k - 1] # "\n" /\ body[k + 2] # "\n"

\* C12: escaping and un-escaping are inverse for every code body: for every
\* <pre><code> span, whatever its body (line breaks, blank lines, the two
\* characters backslash and n), the scanner emits one pre element and the
\* code block built from it has the body as its content.
C12_EscapeRoundTrip ==
    pc = "code_scanned" => OneCodeBlockOf(fnIn, fnOut)

\* The same for the bodies without a backslash directly followed by n: it
\* holds there.
C12_ExceptLiteralBackslashN ==
    (pc = "code_scanned" /\ ~HasLiteralBackslashN(fnIn)) => OneCodeBlockOf(fnIn, fnOut)

\* C18: a code fence whose body has an internal blank line keeps it through
\* the whole pipeline (conversion to HTML with its clean-up, scan, build): the
\* content of the resulting code block is the original body.
C18_BlankLineKept ==
    (pc = "code_piped" /\ HasBlankLine(fnIn)) => OneCodeBlockOf(fnIn, fnOut)

\* What the pipeline keeps: a body without two line breaks in a row and
\* without a backslash directly followed by n.
C18_SingleLineBreaksKept ==
    (/\ pc = "code_piped"
     /\ ~Contains(fnIn, <<"\n", "\n">>)
     /\ ~HasLiteralBackslashN(fnIn)) => OneCodeBlockOf(fnIn, fnOut)

----------------------------------------------------------------------------
(* The builder's handling of images within one invocation, and termination *)

BuildDone == elemIdx = Len(elements) + 1

\* What the probe of element k reported; "none" when no probe was made.
ProbeResultOf(k) ==
    LET done == {e \in EventsOf({"probe_done"}) : calls[e].n = k}
    IN  IF done = {} THEN "none" ELSE calls[CHOOSE e \in done : TRUE].arg[1]

\* The block type element k yields as the claim has it (none or one).
TypeAsClaimed(k) ==
    LET element == elements[k]
    IN  IF element.tag = "img"
        THEN IF element.attributes.src = <<>> THEN <<>>
             ELSE IF ProbeResultOf(k) = "ok" THEN <<"image">>
             ELSE <<"callout">>
        ELSE IF element.tag = "p" THEN <<"paragraph">>
        ELSE <<>>

YieldsOne(types) == types # <<>>

\* C13: image handling never fails the conversion: an img element with a src
\* yields an image block exactly when its probe reported a success status,
\* and a callout when the probe raised, got a non-success status or was not
\* made because the URL is malformed; an img element without src and an
\* element with a tag the builder does not know yield no block; no error
\* comes out of the builder.
C13_ImagesNeverFail ==
    /\ pc \in {"build", "probing"} => outcome.kind = "none"
    /\ outcome.kind = "error" =>
          (calls = <<>> \/ calls[Len(calls)].op \in {"create_fail", "append_fail"})
    /\ \A k \in EventsOf({"probe"}) : IsValidUrl(calls[k].arg)
    /\ BuildDone =>
          /\ [k \in 1..Len(blocks) |-> <<blocks[k].type>>]
                = SelectSeq([k \in 1..Len(elements) |-> TypeAsClaimed(k)], YieldsOne)
          /\ \A k \in 1..Len(blocks) :
                blocks[k].type = "image" => blocks[k].url = GoodUrl

\* C13 witness: of three img elements the first was reachable, the probe of
\* the second raised and the third has no src: an image block and a callout.
C13_Witness ==
    /\ BuildDone
    /\ Len(elements) = 3
    /\ ProbeResultOf(1) = "ok" /\ ProbeResultOf(2) = "throws"
    /\ elements[3].tag = "img" /\ elements[3].attributes.src = <<>>
    /\ [k \in 1..Len(blocks) |-> blocks[k].type] = <<"image", "callout">>

\* The specification of one invocation whose steps are all taken in the end:
\* the runtime goes on, and every external call returns or fails.
LiveSpec == Spec /\ WF_vars(Next)

\* The while loop of htmlToRichText from state st on: every iteration either
\* leaves the loop (line 474) or moves the position forward.
RECURSIVE TokAdvances(_, _)
TokAdvances(html, st) ==
    \/ st.broke
    \/ st.i > Len(html)
    \/ /\ TokStep(html, st).broke \/ TokStep(html, st).i > st.i
       /\ TokAdvances(html, TokStep(html, st))

AppendBound ==
    Cardinality(EventsOf({"append"})) >= 1 =>
        100 * (Cardinality(EventsOf({"append"})) - 1) < Len(blocks) + 2

Ended == pc = "done" /\ outcome.kind \in {"result", "error"}

====
